---- MODULE Spec2Model ----
(***************************************************************************)
(* State-machine model of the workload generator of DCSim:                 *)
(*   - fill_streaming_workflow   (sgbatch/src/SimpleSimulator.cpp)         *)
(*   - the input-file staging loop of main (same file)                     *)
(*   - Workload::Workload / Workload::sampleJob   (src/Workload.cpp)       *)
(*   - Workload::assignFiles                      (src/Workload.cpp)       *)
(* Each routine has its own specification (SpecBuild, SpecStage,           *)
(* SpecSample, SpecAssign); the variables of the other routines stay at    *)
(* their idle values.  Real-valued quantities (sizes, flops, memory) are   *)
(* modelled by integers, the hit rate by a fraction hitrate / HitDen.      *)
(***************************************************************************)
EXTENDS Integers, Sequences, FiniteSets, TLC

(* ------------------------------ bounds -------------------------------- *)
MaxJobs == 2
MaxInfiles == 2
MaxFiles == 4
MaxSizeUnits == 5
UBBlocks == 1
MaxTasks == 2
MaxInputFiles == 3
MaxStagedFiles == 3
MaxFileSize == 2
MaxCaches == 2
HitDen == 4
MaxBatch == 2
MaxWorkloads == 2
GenPeriod == 8
MaxDatasets == 2
MaxDsFiles == 5
MaxAssignJobs == 3

(* default of the xrd_block_size parameter *)
DefaultBlockSize == 1000000
SizeUnit == DefaultBlockSize \div 2

(* Values the samplers of fill_streaming_workflow may be able to return. A
   sampler is given by its support: the set of values a draw can produce. *)
ScalarDraws == {-1, 0, 1}
ScalarSupports == {{-1}, ScalarDraws}
InsizeDraws == {-SizeUnit, 0} \cup {n * SizeUnit : n \in 1..MaxSizeUnits}
InsizeSupports == {{-SizeUnit}, InsizeDraws}

VARIABLES
  \* fill_streaming_workflow: parameters
  num_jobs, infiles_per_task, use_blockstreaming, xrd_block_size,
  flops, mem, insize,
  \* fill_streaming_workflow: control and locals
  pc, j, f, b, dflops, dmem, dinsize, nblocks,
  endtask, enddummytask, dummytask_parent, task_parent,
  \* the workflow: tasks in creation order, control edges <<parent, child>>
  tasks, edges,
  \* accepted input-file sizes, in sampling order
  sampled,
  \* staging loop of main: the tasks' input files (sizes), the cache hit rate
  \* as hitrate / HitDen, the cache storage services
  task_inputs, hitrate, cache_storage_services,
  \* staging loop of main: control and locals
  stage_pc, task, input_files, file_pos, incr_inputfile_size, cached_files_size,
  \* the files staged so far: <<task, file, storage service>>
  staged,
  \* Workload: the caller's generator and the member generator (positions in
  \* the random stream), the four samplers (supports), the job batch
  caller_generator, generator, core_dist, flops_dist, mem_dist, outsize_dist,
  job_batch,
  \* Workload::Workload and sampleJob: control and locals
  sample_pc, wl_num_jobs, job_id, batch, req_cores, job_dflops, job_dmem,
  doutsize, workloads,
  \* Workload::assignFiles: arguments, control and locals
  dataset_specs, infile_datasets, assign_pc, matching_ds, all_files,
  num_files, k, job_pos

buildVars == <<num_jobs, infiles_per_task, use_blockstreaming, xrd_block_size,
               flops, mem, insize, pc, j, f, b, dflops, dmem, dinsize, nblocks,
               endtask, enddummytask, dummytask_parent, task_parent,
               tasks, edges, sampled>>

stageVars == <<task_inputs, hitrate, cache_storage_services, stage_pc, task,
               input_files, file_pos, incr_inputfile_size, cached_files_size,
               staged>>

sampleVars == <<caller_generator, generator, core_dist, flops_dist, mem_dist,
                outsize_dist, sample_pc, wl_num_jobs, job_id, batch, req_cores,
                job_dflops, job_dmem, doutsize, workloads>>

assignVars == <<dataset_specs, infile_datasets, assign_pc, matching_ds,
                all_files, num_files, k, job_pos>>

vars == <<buildVars, stageVars, sampleVars, job_batch, assignVars>>

(* nullptr for task pointers; tasks are addressed by their creation index *)
Null == 0

(* --------------------- fill_streaming_workflow ------------------------ *)

(* workflow->addTask for a dummy task with its one input block *)
DummyTask(jj, ff, bb, blocksize) ==
  [kind |-> "Transfer", job |-> jj, file |-> ff, block |-> bb,
   input_files |-> <<blocksize>>, output_files |-> <<>>]

(* workflow->addTask for a block task *)
BlockTask(jj, ff, bb) ==
  [kind |-> "Compute", job |-> jj, file |-> ff, block |-> bb,
   input_files |-> <<>>, output_files |-> <<>>]

(* mutation: the dependency of a dummy task added in the wrong direction *)
DummyEdgesReversed(parent, dummytask) ==
  IF parent # Null THEN {<<dummytask, parent>>} ELSE {}

(* control dependencies added for a new dummy task *)
DummyEdges(parent, dummytask) ==
  IF parent # Null THEN {<<parent, dummytask>>} ELSE {}

(* mutation: the block task is not made to wait for its own dummy task *)
TaskEdgesNoDummy(dummytask, parent, blocktask) ==
  IF parent # Null THEN {<<parent, blocktask>>} ELSE {}

(* control dependencies added for a new block task *)
TaskEdges(dummytask, parent, blocktask) ==
  {<<dummytask, blocktask>>} \cup
  (IF parent # Null THEN {<<parent, blocktask>>} ELSE {})

(* mutation: the two chain ends are taken for each other *)
ChainParentsSwapped(enddummy, endt) ==
  IF enddummy # Null /\ endt # Null THEN <<endt, enddummy>> ELSE <<Null, Null>>

(* the parents the first block of a file is chained to *)
ChainParents(enddummy, endt) ==
  IF enddummy # Null /\ endt # Null THEN <<enddummy, endt>> ELSE <<Null, Null>>

(* mutation: the block count rounded up instead of truncated *)
NBlocksCeil(size, blocksize) ==
  IF blocksize # 0 THEN {(size + blocksize - 1) \div blocksize} ELSE 0..UBBlocks

(* static_cast<size_t>(dinsize/xrd_block_size): truncation of the quotient.
   0/0 is NaN, whose conversion to size_t is undefined: any count. *)
NBlocks(size, blocksize) ==
  IF blocksize # 0 THEN {size \div blocksize} ELSE 0..UBBlocks

(* dinsize - nblocks*xrd_block_size *)
RemainderSize(size, n, blocksize) == size - n * blocksize

(* the routines that are not running *)
IdleBuild ==
  /\ num_jobs = 0 /\ infiles_per_task = 0 /\ use_blockstreaming = TRUE
  /\ xrd_block_size = DefaultBlockSize
  /\ flops = {} /\ mem = {} /\ insize = {}
  /\ pc = "idle"
  /\ j = 0 /\ f = 0 /\ b = 0
  /\ dflops = 0 /\ dmem = 0 /\ dinsize = 0 /\ nblocks = 0
  /\ endtask = Null /\ enddummytask = Null
  /\ dummytask_parent = Null /\ task_parent = Null
  /\ tasks = <<>> /\ edges = {} /\ sampled = <<>>

IdleStage ==
  /\ task_inputs = <<>> /\ hitrate = 0 /\ cache_storage_services = {}
  /\ stage_pc = "idle" /\ task = 0 /\ input_files = <<>> /\ file_pos = 0
  /\ incr_inputfile_size = 0 /\ cached_files_size = 0 /\ staged = {}

IdleSample ==
  /\ caller_generator = 0 /\ generator = 0
  /\ core_dist = {} /\ flops_dist = {} /\ mem_dist = {} /\ outsize_dist = {}
  /\ sample_pc = "idle" /\ wl_num_jobs = 0 /\ job_id = 0 /\ batch = <<>>
  /\ req_cores = 0 /\ job_dflops = 0 /\ job_dmem = 0 /\ doutsize = 0
  /\ workloads = 0

IdleAssign ==
  /\ dataset_specs = <<>> /\ infile_datasets = {} /\ assign_pc = "idle"
  /\ matching_ds = <<>> /\ all_files = <<>> /\ num_files = 0 /\ k = 0
  /\ job_pos = 0

InitBuild ==
  /\ IdleStage /\ IdleSample /\ IdleAssign /\ job_batch = <<>>
  /\ num_jobs \in 0..MaxJobs
  /\ infiles_per_task \in 0..MaxInfiles
  /\ num_jobs * infiles_per_task <= MaxFiles
  /\ use_blockstreaming \in BOOLEAN
  /\ xrd_block_size = DefaultBlockSize
  /\ flops \in ScalarSupports
  /\ mem \in ScalarSupports
  /\ insize \in InsizeSupports
  /\ pc = "job"
  /\ j = 0 /\ f = 0 /\ b = 0
  /\ dflops = 0 /\ dmem = 0 /\ dinsize = 0 /\ nblocks = 0
  /\ endtask = Null /\ enddummytask = Null
  /\ dummytask_parent = Null /\ task_parent = Null
  /\ tasks = <<>> /\ edges = {} /\ sampled = <<>>

(* for (size_t j = 0; j < num_jobs; j++) *)
JobLoop ==
  /\ UNCHANGED <<stageVars, sampleVars, job_batch, assignVars>>
  /\ pc = "job"
  /\ pc' = IF j < num_jobs THEN "flops" ELSE "done"
  /\ UNCHANGED <<num_jobs, infiles_per_task, use_blockstreaming, xrd_block_size,
                 flops, mem, insize, j, f, b, dflops, dmem, dinsize, nblocks,
                 endtask, enddummytask, dummytask_parent, task_parent,
                 tasks, edges, sampled>>

(* double dflops = flops(gen); while (dflops < 0.) dflops = flops(gen); *)
SampleFlops ==
  /\ UNCHANGED <<stageVars, sampleVars, job_batch, assignVars>>
  /\ pc = "flops"
  /\ \E v \in flops :
       /\ dflops' = v
       /\ pc' = IF v < 0 THEN "flops" ELSE "mem"
  /\ UNCHANGED <<num_jobs, infiles_per_task, use_blockstreaming, xrd_block_size,
                 flops, mem, insize, j, f, b, dmem, dinsize, nblocks,
                 endtask, enddummytask, dummytask_parent, task_parent,
                 tasks, edges, sampled>>

(* double dmem = mem(gen); while (dmem < 0.) dmem = mem(gen);
   then endtask = enddummytask = nullptr and the file loop starts *)
SampleMem ==
  /\ UNCHANGED <<stageVars, sampleVars, job_batch, assignVars>>
  /\ pc = "mem"
  /\ \E v \in mem :
       /\ dmem' = v
       /\ IF v < 0
            THEN /\ pc' = "mem"
                 /\ UNCHANGED <<endtask, enddummytask, f>>
            ELSE /\ pc' = "file"
                 /\ endtask' = Null /\ enddummytask' = Null /\ f' = 0
  /\ UNCHANGED <<num_jobs, infiles_per_task, use_blockstreaming, xrd_block_size,
                 flops, mem, insize, j, b, dflops, dinsize, nblocks,
                 dummytask_parent, task_parent, tasks, edges, sampled>>

(* for (size_t f = 0; f < infiles_per_task; f++) *)
FileLoop ==
  /\ UNCHANGED <<stageVars, sampleVars, job_batch, assignVars>>
  /\ pc = "file"
  /\ pc' = IF f < infiles_per_task THEN "insize" ELSE "output"
  /\ UNCHANGED <<num_jobs, infiles_per_task, use_blockstreaming, xrd_block_size,
                 flops, mem, insize, j, f, b, dflops, dmem, dinsize, nblocks,
                 endtask, enddummytask, dummytask_parent, task_parent,
                 tasks, edges, sampled>>

(* double dinsize = insize(gen); while (dinsize < 0.) dinsize = insize(gen);
   on acceptance: the block size, the block count and the chain parents *)
SampleInsize ==
  /\ UNCHANGED <<stageVars, sampleVars, job_batch, assignVars>>
  /\ pc = "insize"
  /\ \E v \in insize :
       /\ dinsize' = v
       /\ IF v < 0
            THEN /\ pc' = "insize"
                 /\ UNCHANGED <<xrd_block_size, nblocks, dummytask_parent,
                                task_parent, b, sampled>>
            ELSE /\ pc' = "block"
                 /\ xrd_block_size' = IF ~use_blockstreaming THEN v ELSE xrd_block_size
                 /\ nblocks' \in NBlocks(v, xrd_block_size')
                 /\ dummytask_parent' = ChainParents(enddummytask, endtask)[1]
                 /\ task_parent' = ChainParents(enddummytask, endtask)[2]
                 /\ b' = 0
                 /\ sampled' = Append(sampled, [job |-> j, file |-> f, size |-> v])
  /\ UNCHANGED <<num_jobs, infiles_per_task, use_blockstreaming,
                 flops, mem, insize, j, f, dflops, dmem,
                 endtask, enddummytask, tasks, edges>>

(* one iteration of for (size_t b = 0; b < nblocks; b++), or its exit *)
Block ==
  /\ UNCHANGED <<stageVars, sampleVars, job_batch, assignVars>>
  /\ pc = "block"
  /\ IF b < nblocks
       THEN LET dummytask == Len(tasks) + 1
                blocktask == Len(tasks) + 2
            IN /\ tasks' = tasks \o <<DummyTask(j, f, b, xrd_block_size),
                                      BlockTask(j, f, b)>>
               /\ edges' = edges \cup DummyEdges(dummytask_parent, dummytask)
                                 \cup TaskEdges(dummytask, task_parent, blocktask)
               /\ dummytask_parent' = dummytask
               /\ task_parent' = blocktask
               /\ IF b = nblocks - 1
                    THEN enddummytask' = dummytask /\ endtask' = blocktask
                    ELSE UNCHANGED <<enddummytask, endtask>>
               /\ b' = b + 1
               /\ pc' = "block"
       ELSE /\ pc' = "remainder"
            /\ UNCHANGED <<tasks, edges, dummytask_parent, task_parent,
                           enddummytask, endtask, b>>
  /\ UNCHANGED <<num_jobs, infiles_per_task, use_blockstreaming, xrd_block_size,
                 flops, mem, insize, j, f, dflops, dmem, dinsize, nblocks,
                 sampled>>

(* if (double blocksize = (dinsize - nblocks*xrd_block_size)) { ... }, f++ *)
Remainder ==
  /\ UNCHANGED <<stageVars, sampleVars, job_batch, assignVars>>
  /\ pc = "remainder"
  /\ LET blocksize == RemainderSize(dinsize, nblocks, xrd_block_size)
         dummytask == Len(tasks) + 1
         blocktask == Len(tasks) + 2
     IN IF blocksize # 0
          THEN /\ tasks' = tasks \o <<DummyTask(j, f, nblocks, blocksize),
                                      BlockTask(j, f, nblocks)>>
               /\ edges' = edges \cup DummyEdges(dummytask_parent, dummytask)
                                 \cup TaskEdges(dummytask, task_parent, blocktask)
               /\ enddummytask' = dummytask
               /\ endtask' = blocktask
          ELSE UNCHANGED <<tasks, edges, enddummytask, endtask>>
  /\ f' = f + 1
  /\ pc' = "file"
  /\ UNCHANGED <<num_jobs, infiles_per_task, use_blockstreaming, xrd_block_size,
                 flops, mem, insize, j, b, dflops, dmem, dinsize, nblocks,
                 dummytask_parent, task_parent, sampled>>

(* mutation: the output file attached to the dummy task of the last block *)
AddOutputFileToDummy(ts, t) == [ts EXCEPT ![t - 1].output_files = Append(@, 0)]

(* t->addOutputFile(workflow->addFile("outfile_j", 0.0)) *)
AddOutputFile(ts, t) == [ts EXCEPT ![t].output_files = Append(@, 0)]

(* endtask->addOutputFile(workflow->addFile("outfile_j", 0.0)); j++.
   With endtask == nullptr the call is undefined: the run crashes or goes on
   without an output file. *)
Output ==
  /\ UNCHANGED <<stageVars, sampleVars, job_batch, assignVars>>
  /\ pc = "output"
  /\ IF endtask # Null
       THEN /\ tasks' = AddOutputFile(tasks, endtask)
            /\ j' = j + 1
            /\ pc' = "job"
       ELSE \/ /\ pc' = "crashed"
               /\ UNCHANGED <<tasks, j>>
            \/ /\ pc' = "job"
               /\ j' = j + 1
               /\ UNCHANGED tasks
  /\ UNCHANGED <<num_jobs, infiles_per_task, use_blockstreaming, xrd_block_size,
                 flops, mem, insize, f, b, dflops, dmem, dinsize, nblocks,
                 endtask, enddummytask, dummytask_parent, task_parent,
                 edges, sampled>>

NextBuild ==
  \/ JobLoop
  \/ SampleFlops
  \/ SampleMem
  \/ FileLoop
  \/ SampleInsize
  \/ Block
  \/ Remainder
  \/ Output

SpecBuild == InitBuild /\ [][NextBuild]_vars

(* ------------------- the staging loop of main ------------------------- *)

(* orders std::shuffle can leave n input files in *)
Shuffles(n) ==
  {p \in [1..n -> 1..n] : \A x, y \in 1..n : p[x] = p[y] => x = y}

RECURSIVE TotalSize(_)
(* sum of f->getSize() over a vector of files *)
TotalSize(sizes) ==
  IF sizes = <<>> THEN 0 ELSE Head(sizes) + TotalSize(Tail(sizes))

(* mutation: the cached size compared with the total, the hit rate left out *)
CacheAdmitNoHitrate(cached, h, total) == cached <= total

(* mutation: the cached size compared with the hit rate alone *)
CacheAdmitNoTotal(cached, h, total) == cached * HitDen <= h

(* cached_files_size <= hitrate*incr_inputfile_size, with hitrate = h/HitDen *)
CacheAdmit(cached, h, total) == cached * HitDen <= h * total

(* the single remote storage service *)
remote_storage_service == <<"remote", 0>>

FileSizes == 1..MaxFileSize

(* numbers of input files per task, and the tasks cut out of a list of sizes *)
TaskShapes ==
  {sh \in UNION {[1..n -> 0..MaxInputFiles] : n \in 1..MaxTasks} :
     TotalSize(sh) <= MaxStagedFiles}
TasksOf(sh, sizes) ==
  [t \in 1..Len(sh) |->
     [i \in 1..sh[t] |-> sizes[TotalSize(SubSeq(sh, 1, t - 1)) + i]]]

InitStage ==
  /\ IdleBuild /\ IdleSample /\ IdleAssign /\ job_batch = <<>>
  /\ \E sh \in TaskShapes : \E sizes \in [1..TotalSize(sh) -> FileSizes] :
       task_inputs = TasksOf(sh, sizes)
  /\ hitrate \in 0..HitDen
  /\ cache_storage_services \in {{<<"cache", c>> : c \in 1..n} : n \in 0..MaxCaches}
  /\ stage_pc = "task"
  /\ task = 1
  /\ input_files = <<>> /\ file_pos = 0
  /\ incr_inputfile_size = 0 /\ cached_files_size = 0
  /\ staged = {}

(* for (auto task : tasks): shuffle the input files, sum their sizes *)
StageTask ==
  /\ UNCHANGED <<buildVars, sampleVars, job_batch, assignVars>>
  /\ stage_pc = "task"
  /\ IF task <= Len(task_inputs)
       THEN /\ input_files' \in Shuffles(Len(task_inputs[task]))
            /\ incr_inputfile_size' = TotalSize(task_inputs[task])
            /\ cached_files_size' = 0
            /\ file_pos' = 1
            /\ stage_pc' = "file"
       ELSE /\ stage_pc' = "done"
            /\ UNCHANGED <<input_files, incr_inputfile_size, cached_files_size,
                           file_pos>>
  /\ UNCHANGED <<task_inputs, hitrate, cache_storage_services, task, staged>>

(* one iteration of for (auto const &f : input_files), or its exit *)
StageFile ==
  /\ UNCHANGED <<buildVars, sampleVars, job_batch, assignVars>>
  /\ stage_pc = "file"
  /\ IF file_pos <= Len(input_files)
       THEN LET file == input_files[file_pos]
                size == task_inputs[task][file]
            IN /\ IF CacheAdmit(cached_files_size, hitrate, incr_inputfile_size)
                    THEN /\ staged' = staged \cup {<<task, file, remote_storage_service>>}
                              \cup {<<task, file, c>> : c \in cache_storage_services}
                         /\ cached_files_size' = cached_files_size + size
                    ELSE /\ staged' = staged \cup {<<task, file, remote_storage_service>>}
                         /\ UNCHANGED cached_files_size
               /\ file_pos' = file_pos + 1
               /\ UNCHANGED <<task, stage_pc>>
       ELSE /\ task' = task + 1
            /\ stage_pc' = "task"
            /\ UNCHANGED <<staged, cached_files_size, file_pos>>
  /\ UNCHANGED <<task_inputs, hitrate, cache_storage_services, input_files,
                 incr_inputfile_size>>

NextStage ==
  \/ StageTask
  \/ StageFile

SpecStage == InitStage /\ [][NextStage]_vars

(* --------------- Workload::Workload and Workload::sampleJob ----------- *)

(* supports of the integer sampler (cores) *)
CoreDraws == {0, 1, 2}
CoreSupports == {{0}, CoreDraws}

(* one use of a distribution advances the generator it is given *)
Advance(g) == (g + 1) % GenPeriod

(* the JobSpecification sampleJob returns; infiles are assigned later *)
JobSpecification(id, cores, total_flops, total_mem, outsize) ==
  [jobid |-> id, cores |-> cores, total_flops |-> total_flops,
   total_mem |-> total_mem, outfile |-> outsize, infiles |-> <<>>]

InitSample ==
  /\ IdleBuild /\ IdleStage /\ IdleAssign
  /\ caller_generator = 0
  /\ generator = 0
  /\ core_dist \in CoreSupports
  /\ flops_dist \in ScalarSupports
  /\ mem_dist \in ScalarSupports
  /\ outsize_dist \in ScalarSupports
  /\ wl_num_jobs \in 0..MaxBatch
  /\ sample_pc = "start"
  /\ job_id = 0 /\ batch = <<>> /\ job_batch = <<>>
  /\ req_cores = 0 /\ job_dflops = 0 /\ job_dmem = 0 /\ doutsize = 0
  /\ workloads = 0

(* the caller constructs a Workload: this->generator = generator copies the
   generator passed by const reference; the batch starts empty *)
Construct ==
  /\ UNCHANGED <<buildVars, stageVars, assignVars>>
  /\ sample_pc \in {"start", "constructed"}
  /\ workloads < MaxWorkloads
  /\ generator' = caller_generator
  /\ batch' = <<>>
  /\ job_batch' = <<>>
  /\ job_id' = 0
  /\ sample_pc' = "jobs"
  /\ UNCHANGED <<caller_generator, core_dist, flops_dist, mem_dist, outsize_dist,
                 wl_num_jobs, req_cores, job_dflops, job_dmem, doutsize,
                 workloads>>

(* for (size_t j = 0; j < num_jobs; j++) batch.push_back(sampleJob(...));
   this->job_batch = batch; *)
SampleLoop ==
  /\ UNCHANGED <<buildVars, stageVars, assignVars>>
  /\ sample_pc = "jobs"
  /\ IF job_id < wl_num_jobs
       THEN /\ sample_pc' = "cores"
            /\ UNCHANGED <<job_batch, workloads>>
       ELSE /\ job_batch' = batch
            /\ workloads' = workloads + 1
            /\ sample_pc' = "constructed"
  /\ UNCHANGED <<caller_generator, generator, core_dist, flops_dist, mem_dist,
                 outsize_dist, wl_num_jobs, job_id, batch, req_cores,
                 job_dflops, job_dmem, doutsize>>

(* int req_cores = core_dist(generator);
   while (req_cores < 1) req_cores = core_dist(generator); *)
SampleCores ==
  /\ UNCHANGED <<buildVars, stageVars, assignVars>>
  /\ sample_pc = "cores"
  /\ \E v \in core_dist :
       /\ req_cores' = v
       /\ sample_pc' = IF v < 1 THEN "cores" ELSE "flops"
  /\ generator' = Advance(generator)
  /\ UNCHANGED <<caller_generator, core_dist, flops_dist, mem_dist,
                 outsize_dist, wl_num_jobs, job_id, batch, job_batch,
                 job_dflops, job_dmem, doutsize, workloads>>

(* double dflops = flops_dist(generator);
   while (dflops < 0.) dflops = flops_dist(generator); *)
SampleJobFlops ==
  /\ UNCHANGED <<buildVars, stageVars, assignVars>>
  /\ sample_pc = "flops"
  /\ \E v \in flops_dist :
       /\ job_dflops' = v
       /\ sample_pc' = IF v < 0 THEN "flops" ELSE "mem"
  /\ generator' = Advance(generator)
  /\ UNCHANGED <<caller_generator, core_dist, flops_dist, mem_dist,
                 outsize_dist, wl_num_jobs, job_id, batch, job_batch,
                 req_cores, job_dmem, doutsize, workloads>>

(* double dmem = mem_dist(generator);
   while (dmem < 0.) dmem = mem_dist(generator); *)
SampleJobMem ==
  /\ UNCHANGED <<buildVars, stageVars, assignVars>>
  /\ sample_pc = "mem"
  /\ \E v \in mem_dist :
       /\ job_dmem' = v
       /\ sample_pc' = IF v < 0 THEN "mem" ELSE "outsize"
  /\ generator' = Advance(generator)
  /\ UNCHANGED <<caller_generator, core_dist, flops_dist, mem_dist,
                 outsize_dist, wl_num_jobs, job_id, batch, job_batch,
                 req_cores, job_dflops, doutsize, workloads>>

(* double doutsize = outsize_dist(generator);
   while (doutsize < 0.) doutsize = outsize_dist(generator);
   then the job specification is returned and pushed onto the batch *)
SampleOutsize ==
  /\ UNCHANGED <<buildVars, stageVars, assignVars>>
  /\ sample_pc = "outsize"
  /\ \E v \in outsize_dist :
       IF v < 0
         THEN /\ doutsize' = v
              /\ sample_pc' = "outsize"
              /\ UNCHANGED <<batch, job_id, req_cores, job_dflops, job_dmem>>
         ELSE /\ batch' = Append(batch,
                   JobSpecification(job_id, req_cores, job_dflops, job_dmem, v))
              /\ job_id' = job_id + 1
              /\ req_cores' = 0 /\ job_dflops' = 0 /\ job_dmem' = 0
              /\ doutsize' = 0
              /\ sample_pc' = "jobs"
  /\ generator' = Advance(generator)
  /\ UNCHANGED <<caller_generator, core_dist, flops_dist, mem_dist,
                 outsize_dist, wl_num_jobs, job_batch, workloads>>

NextSample ==
  \/ Construct
  \/ SampleLoop
  \/ SampleCores
  \/ SampleJobFlops
  \/ SampleJobMem
  \/ SampleOutsize

SpecSample == InitSample /\ [][NextSample]_vars

(* the constructor runs to its end without interruption: a step is taken
   whenever one is possible *)
FairSpecSample == SpecSample /\ WF_vars(NextSample)

(* ------------------------ Workload::assignFiles ----------------------- *)

DatasetNames == {"a", "b"}

(* dataset number d with n files; a file is named by dataset and position *)
Dataset(d, name, n) == [name |-> name, files |-> [i \in 1..n |-> <<d, i>>]]

(* a job of the batch before any file is assigned *)
PlainJob(id) == JobSpecification(id, 1, 1, 1, 1)

RECURSIVE ConcatBackwards(_)
(* mutation: the datasets' files put together last dataset first *)
ConcatBackwards(dss) ==
  IF dss = <<>> THEN <<>> ELSE ConcatBackwards(Tail(dss)) \o Head(dss).files

RECURSIVE Concat(_)
(* the files of a list of datasets, dataset after dataset *)
Concat(dss) ==
  IF dss = <<>> THEN <<>> ELSE Head(dss).files \o Concat(Tail(dss))

(* mutation: every dataset taken, whatever its name *)
MatchingAll(dss, names) == dss

(* the datasets whose name is among the configured infile dataset names *)
Matching(dss, names) ==
  LET named(ds) == ds.name \in names IN SelectSeq(dss, named)

InitAssign ==
  /\ IdleBuild /\ IdleStage /\ IdleSample
  /\ \E n \in 0..MaxDatasets :
       \E names \in [1..n -> DatasetNames] : \E sizes \in [1..n -> 0..MaxDsFiles] :
         dataset_specs = [d \in 1..n |-> Dataset(d, names[d], sizes[d])]
  /\ infile_datasets \in SUBSET DatasetNames
  /\ \E n \in 0..MaxAssignJobs : job_batch = [i \in 1..n |-> PlainJob(i - 1)]
  /\ assign_pc = "match"
  /\ matching_ds = <<>> /\ all_files = <<>> /\ num_files = 0 /\ k = 0
  /\ job_pos = 0

(* transform_if(...); if (matching_ds.empty()) throw std::runtime_error *)
Match ==
  /\ UNCHANGED <<buildVars, stageVars, sampleVars, job_batch>>
  /\ assign_pc = "match"
  /\ matching_ds' = Matching(dataset_specs, infile_datasets)
  /\ assign_pc' = IF matching_ds' = <<>> THEN "throw" ELSE "pool"
  /\ UNCHANGED <<dataset_specs, infile_datasets, all_files, num_files, k,
                 job_pos>>

(* num_files, all_files; if (num_jobs == 0) return; k = num_files / num_jobs *)
Pool ==
  /\ UNCHANGED <<buildVars, stageVars, sampleVars, job_batch>>
  /\ assign_pc = "pool"
  /\ all_files' = Concat(matching_ds)
  /\ num_files' = Len(all_files')
  /\ IF Len(job_batch) = 0
       THEN /\ assign_pc' = "done"
            /\ UNCHANGED <<k, job_pos>>
       ELSE /\ k' = num_files' \div Len(job_batch)
            /\ job_pos' = 0
            /\ assign_pc' = "loop"
  /\ UNCHANGED <<dataset_specs, infile_datasets, matching_ds>>

(* one iteration of for (auto j = 0; j < num_jobs; ++j), or its exit *)
AssignLoop ==
  /\ UNCHANGED <<buildVars, stageVars, sampleVars>>
  /\ assign_pc = "loop"
  /\ IF job_pos < Len(job_batch)
       THEN LET beg == job_pos * k
            IN IF Len(all_files) - beg < k
                 THEN /\ job_batch' = [job_batch EXCEPT ![job_pos + 1].infiles =
                             @ \o SubSeq(all_files, beg + 1, Len(all_files))]
                      /\ assign_pc' = "done"
                      /\ UNCHANGED job_pos
                 ELSE /\ job_batch' = [job_batch EXCEPT ![job_pos + 1].infiles =
                             @ \o SubSeq(all_files, beg + 1, beg + k)]
                      /\ job_pos' = job_pos + 1
                      /\ UNCHANGED assign_pc
       ELSE /\ assign_pc' = "done"
            /\ UNCHANGED <<job_batch, job_pos>>
  /\ UNCHANGED <<dataset_specs, infile_datasets, matching_ds, all_files,
                 num_files, k>>

NextAssign ==
  \/ Match
  \/ Pool
  \/ AssignLoop

SpecAssign == InitAssign /\ [][NextAssign]_vars

(* =================== properties of the workflow builder ================= *)

TaskIds == 1..Len(tasks)
Transfers == {t \in TaskIds : tasks[t].kind = "Transfer"}
Computes == {t \in TaskIds : tasks[t].kind = "Compute"}

(* direct predecessors of task t *)
Preds(t) == {e[1] : e \in {d \in edges : d[2] = t}}

RECURSIVE Closure(_, _)
(* the tasks reached backwards along control edges from the tasks in new *)
Closure(seen, new) ==
  IF new = {} THEN seen
  ELSE Closure(seen \cup new, (UNION {Preds(t) : t \in new}) \ (seen \cup new))

(* transitive predecessors of task t, and of the tasks in S *)
Ancestors(t) == Closure({}, Preds(t))
AncestorsOfAll(S) == Closure({}, UNION {Preds(t) : t \in S})

RECURSIVE Strip(_)
(* what is left of a set of edges after taking away, again and again, the
   edges that leave a task no edge enters: nothing, unless there is a cycle *)
Strip(E) ==
  LET entered == {e[2] : e \in E}
      free == {e \in E : e[1] \notin entered}
  IN IF free = {} THEN E ELSE Strip(E \ free)

RECURSIVE LastBefore(_, _, _)
(* the task of the given kind and job created last among tasks 1..u, as a set *)
LastBefore(u, kind, job) ==
  IF u = 0 THEN {}
  ELSE IF tasks[u].kind = kind /\ tasks[u].job = job THEN {u}
  ELSE LastBefore(u - 1, kind, job)

(* the task of the given kind created last before t in t's job, as a set *)
PrevOfKind(t, kind) == LastBefore(t - 1, kind, tasks[t].job)

(* the Transfer task of the block a Compute task works on, as a set *)
OwnTransfer(t) ==
  {u \in Transfers : /\ tasks[u].job = tasks[t].job
                     /\ tasks[u].file = tasks[t].file
                     /\ tasks[u].block = tasks[t].block}

(* C3: a Transfer task has as its only direct predecessor the Transfer task
   created immediately before it in the same job (none for the first one of
   the job), and no Compute task is among its transitive predecessors, so the
   Transfer of a later block never has to wait for a Compute task. *)
C3_TransferIndependentOfCompute ==
  /\ \A t \in Transfers :
       /\ Preds(t) = PrevOfKind(t, "Transfer")
       /\ Cardinality(Preds(t)) <= 1
  /\ AncestorsOfAll(Transfers) \subseteq Transfers

(* a finished workflow in which a Transfer task follows the Transfer of the
   previous block of its file, another the last Transfer of the previous
   file, and a Compute task of an earlier block exists that is not among the
   transitive predecessors of the later Transfer *)
C3_Witness ==
  /\ pc = "done"
  /\ \E t \in Transfers : \E u \in Preds(t) :
       tasks[u].file = tasks[t].file /\ tasks[u].block + 1 = tasks[t].block
  /\ \E t \in Transfers : \E u \in Preds(t) : tasks[u].file + 1 = tasks[t].file
  /\ \E t \in Transfers : \E c \in Computes :
       /\ tasks[c].job = tasks[t].job /\ tasks[c].file = tasks[t].file
       /\ tasks[c].block + 1 = tasks[t].block
       /\ c \notin Ancestors(t)

(* C4: the predecessors of a Compute task are exactly its own Transfer task
   and the Compute task created immediately before it in the same job, if
   any; no control edge joins tasks of different jobs. *)
C4_ComputePredecessors ==
  /\ \A t \in Computes :
       Preds(t) = OwnTransfer(t) \cup PrevOfKind(t, "Compute")
  /\ \A t \in Computes : Cardinality(OwnTransfer(t)) = 1
  /\ \A e \in edges : tasks[e[1]].job = tasks[e[2]].job

(* a finished workflow of two jobs in which a Compute task is chained to the
   last Compute task of the previous file, another to the previous block of
   its file, and the first Compute of the second job has one predecessor *)
C4_Witness ==
  /\ pc = "done"
  /\ \E t \in Computes : \E u \in Preds(t) \cap Computes :
       tasks[u].file + 1 = tasks[t].file
  /\ \E t \in Computes : \E u \in Preds(t) \cap Computes :
       tasks[u].file = tasks[t].file /\ tasks[u].block + 1 = tasks[t].block
  /\ \E t \in Computes :
       /\ tasks[t].job = 1
       /\ PrevOfKind(t, "Compute") = {}
       /\ Cardinality(Preds(t)) = 1
       /\ t > 2

(* C5: in every state of the build every control edge points from a task
   created earlier to a task created later, and the control edges form no
   cycle. *)
C5_Acyclic ==
  /\ \A e \in edges : e[1] \in TaskIds /\ e[2] \in TaskIds /\ e[1] < e[2]
  /\ Strip(edges) = {}

(* the build is in the middle of a job's second file with edges of both
   chains already added *)
C5_Witness ==
  /\ pc = "block"
  /\ f = 1
  /\ b >= 1
  /\ Cardinality(edges) >= 6

(* sizes of the blocks created for file ff of job jj, in creation order *)
FileBlocks(jj, ff) ==
  LET own(r) == r.kind = "Transfer" /\ r.job = jj /\ r.file = ff
      sel == SelectSeq(tasks, own)
  IN [i \in 1..Len(sel) |-> sel[i].input_files[1]]

RECURSIVE SumSeq(_)
SumSeq(s) == IF s = <<>> THEN 0 ELSE Head(s) + SumSeq(Tail(s))

(* the decomposition of a file of size s into blocks of size bs *)
ExpectedBlocks(s, bs) ==
  [i \in 1..(s \div bs) |-> bs] \o (IF s % bs # 0 THEN <<s % bs>> ELSE <<>>)

(* the files whose blocks have all been created *)
FinishedFiles ==
  {i \in 1..Len(sampled) : i < Len(sampled) \/ pc \notin {"block", "remainder"}}

(* C10: a file of sampled size s > 0 is cut into floor(s/B) blocks of the
   block size B followed by a remainder block exactly when s is not a multiple
   of B; without blockstreaming it is one block of size s; the block sizes
   sum to s. *)
C10_BlockDecomposition ==
  \A i \in FinishedFiles :
    LET s == sampled[i].size
        blocks == FileBlocks(sampled[i].job, sampled[i].file)
    IN s > 0 =>
         /\ use_blockstreaming => blocks = ExpectedBlocks(s, DefaultBlockSize)
         /\ ~use_blockstreaming => blocks = <<s>>
         /\ SumSeq(blocks) = s

(* a file of 2,500,000 bytes streamed in blocks of 1,000,000 bytes *)
C10_Witness ==
  /\ pc = "done"
  /\ use_blockstreaming
  /\ \E i \in FinishedFiles :
       /\ sampled[i].size = 2500000
       /\ FileBlocks(sampled[i].job, sampled[i].file) = <<1000000, 1000000, 500000>>

(* C8: the flops and the memory of every sampled job and the size of every
   sampled input file are strictly positive. *)
C8_SamplesStrictlyPositive ==
  /\ pc \in {"mem", "file", "insize", "block", "remainder", "output"} => dflops > 0
  /\ pc \in {"file", "insize", "block", "remainder", "output"} => dmem > 0
  /\ \A i \in 1..Len(sampled) : sampled[i].size > 0

(* =================== properties of the staging loop ===================== *)

(* the input files of task t the loop has gone through *)
Handled(t) ==
  IF t < task \/ stage_pc = "done" THEN 1..Len(task_inputs[t])
  ELSE IF t = task /\ stage_pc = "file"
         THEN {input_files[p] : p \in 1..(file_pos - 1)}
         ELSE {}

(* the input files of task t staged on at least one cache *)
OnCache(t) ==
  {i \in 1..Len(task_inputs[t]) :
     \E c \in cache_storage_services : <<t, i, c>> \in staged}

RECURSIVE SizeOf(_, _)
(* total size of the files of task t in the set F *)
SizeOf(t, F) ==
  IF F = {} THEN 0
  ELSE LET i == CHOOSE x \in F : TRUE
       IN task_inputs[t][i] + SizeOf(t, F \ {i})

LargestInput(t) ==
  IF task_inputs[t] = <<>> THEN 0
  ELSE CHOOSE m \in {task_inputs[t][i] : i \in 1..Len(task_inputs[t])} :
         \A i \in 1..Len(task_inputs[t]) : task_inputs[t][i] <= m

StageTasks == 1..Len(task_inputs)

(* C1: with hit rate 0 no input file is staged on a cache; every file the
   loop has gone through is staged on the remote storage only. *)
C1_NoCacheAtHitrateZero ==
  hitrate = 0 =>
    \A t \in StageTasks :
      /\ OnCache(t) = {}
      /\ \A i \in Handled(t) : <<t, i, remote_storage_service>> \in staged

(* C6: the total size of a task's input files staged on the caches is at
   most hitrate * total + the size of the task's largest input file. *)
C6_CachedSizeBound ==
  \A t \in StageTasks :
    SizeOf(t, OnCache(t)) * HitDen <=
      hitrate * TotalSize(task_inputs[t]) + LargestInput(t) * HitDen

(* a task of three files whose cached size overshoots hitrate * total while
   one of its files stays off the caches *)
C6_Witness ==
  /\ stage_pc = "done"
  /\ \E t \in StageTasks :
       /\ Len(task_inputs[t]) = 3
       /\ SizeOf(t, OnCache(t)) * HitDen > hitrate * TotalSize(task_inputs[t])
       /\ OnCache(t) # {}
       /\ OnCache(t) # 1..3

(* C9: with hit rate 1 every input file the loop has gone through is staged
   on the remote storage and on every cache. *)
C9_AllCachedAtHitrateOne ==
  hitrate = HitDen =>
    \A t \in StageTasks : \A i \in Handled(t) :
      /\ <<t, i, remote_storage_service>> \in staged
      /\ \A c \in cache_storage_services : <<t, i, c>> \in staged

(* hit rate 1, two caches, and a task of three files of which the sizes
   differ, all gone through *)
C9_Witness ==
  /\ stage_pc = "done"
  /\ hitrate = HitDen
  /\ Cardinality(cache_storage_services) >= 2
  /\ \E t \in StageTasks :
       /\ Len(task_inputs[t]) = 3
       /\ task_inputs[t][1] # task_inputs[t][2]
       /\ OnCache(t) = 1..3

(* =================== properties of the job sampler ====================== *)

(* C7: the rejection-resampling loops terminate for every sampler: the
   construction of a workload comes to an end, with the batch sampled or
   with a DistributionError. *)
C7_ResamplingTerminates ==
  <>(sample_pc \in {"constructed", "distribution_error"})

(* =================== properties of the file assignment ================== *)

(* the files job number i (from 1) holds *)
AssignedTo(i) == {job_batch[i].infiles[p] : p \in 1..Len(job_batch[i].infiles)}

(* C2: when assignFiles returns for a batch of at least one job, every file
   of the pool has been given to a job; a pool of 10 files and 3 jobs ends
   with 3, 3 and 4 files. *)
C2_NoPoolFileDropped ==
  (assign_pc = "done" /\ Len(job_batch) >= 1) =>
    /\ \A p \in 1..Len(all_files) :
         \E i \in 1..Len(job_batch) : all_files[p] \in AssignedTo(i)
    /\ (Len(all_files) = 10 /\ Len(job_batch) = 3) =>
         [i \in 1..3 |-> Len(job_batch[i].infiles)] = <<3, 3, 4>>

(* =================== pairing and output files =========================== *)

(* the Compute tasks that directly follow Transfer task t *)
ComputeChildren(t) == {e[2] : e \in {d \in edges : d[1] = t /\ d[2] \in Computes}}

(* the jobs that have tasks *)
JobsWithTasks == {tasks[t].job : t \in TaskIds}

(* C11: in every state of the build each Transfer task is the direct
   predecessor of exactly one Compute task, each Compute task has exactly one
   Transfer task among its direct predecessors, and every job has as many
   Transfer tasks as Compute tasks. *)
C11_TransferComputePaired ==
  /\ \A t \in Transfers : Cardinality(ComputeChildren(t)) = 1
  /\ \A c \in Computes : Cardinality(Preds(c) \cap Transfers) = 1
  /\ \A jj \in JobsWithTasks :
       Cardinality({t \in Transfers : tasks[t].job = jj}) =
       Cardinality({c \in Computes : tasks[c].job = jj})

(* a finished workflow of two jobs, the second with two files and a file of
   several blocks *)
C11_Witness ==
  /\ pc = "done"
  /\ \E t \in Transfers :
       tasks[t].job = 1 /\ tasks[t].file = 1 /\ tasks[t].block >= 1
  /\ Cardinality(Transfers) >= 5

(* the tasks of job jj that carry an output file *)
WithOutput(jj) ==
  {t \in TaskIds : tasks[t].job = jj /\ tasks[t].output_files # <<>>}

(* the jobs whose output file has been attached *)
FinishedJobs == {jj \in 0..(num_jobs - 1) : jj < j}

(* every input file sampled for job jj has a size above 0 *)
PositiveFiles(jj) ==
  \A i \in 1..Len(sampled) : sampled[i].job = jj => sampled[i].size > 0

(* C12: in a job built with at least one input file per job and file sizes
   above 0, exactly one task carries an output file: the Compute task of the
   last block of the job's last file; the file has size 0. Before the output
   file of a job is attached none of its tasks has one. *)
C12_OneOutputPerJob ==
  /\ \A jj \in FinishedJobs :
       (infiles_per_task >= 1 /\ PositiveFiles(jj)) =>
         LET last == LastBefore(Len(tasks), "Compute", jj)
         IN /\ Cardinality(last) = 1
            /\ WithOutput(jj) = last
            /\ \A t \in last :
                 /\ tasks[t].output_files = <<0>>
                 /\ tasks[t].file = infiles_per_task - 1
                 /\ \A u \in TaskIds :
                      (tasks[u].job = jj /\ tasks[u].file = tasks[t].file)
                        => tasks[u].block <= tasks[t].block
  /\ \A jj \in JobsWithTasks : jj >= j => WithOutput(jj) = {}

(* a finished workflow of two jobs of two files each, all sizes above 0, the
   last file of a job cut into several blocks, both output files attached *)
C12_Witness ==
  /\ pc = "done"
  /\ num_jobs = 2 /\ infiles_per_task = 2
  /\ \A jj \in FinishedJobs : PositiveFiles(jj) /\ WithOutput(jj) # {}
  /\ \E t \in Computes : tasks[t].output_files # <<>> /\ tasks[t].block >= 2

(* =================== more properties of the file assignment ============= *)

(* no dataset of dataset_specs bears a configured infile dataset name *)
NoDatasetMatches ==
  \A d \in 1..Len(dataset_specs) : dataset_specs[d].name \notin infile_datasets

(* C13 as claimed: with an empty job batch assignFiles never fails, whatever
   the datasets and the configured names are. *)
C13_EmptyBatchNeverFails ==
  Len(job_batch) = 0 => assign_pc # "throw"

(* C13, amended: with an empty job batch assignFiles never enters the job
   loop; it fails exactly when no dataset bears a configured name, and
   otherwise returns with the batch still empty. *)
C13_EmptyBatchNoOpIfMatched ==
  Len(job_batch) = 0 =>
    /\ assign_pc \in {"match", "pool", "done", "throw"}
    /\ assign_pc = "throw" => NoDatasetMatches
    /\ assign_pc \in {"pool", "done"} => ~NoDatasetMatches
    /\ job_pos = 0 /\ k = 0

(* assignFiles has returned for an empty batch with a pool of several files
   of two matching datasets, next to a dataset that does not match *)
C13_Witness ==
  /\ Len(job_batch) = 0
  /\ assign_pc = "done"
  /\ Len(all_files) >= 2
  /\ Len(matching_ds) >= 1
  /\ Len(matching_ds) < Len(dataset_specs)

(* =================== more properties of the job sampler ================= *)

(* C14: every draw made while a batch is sampled advances the generator the
   caller passed in: when the constructor has returned, the caller's
   generator is in the state the draws have left the generator in, so the
   next batch continues the random stream where this one stopped. *)
C14_CallerGeneratorAdvanced ==
  sample_pc = "constructed" => caller_generator = generator

(* the numbers of the datasets that bear a configured name, in order *)
MatchingIndices ==
  {d \in 1..Len(dataset_specs) : dataset_specs[d].name \in infile_datasets}

RECURSIVE PoolUpTo(_)
(* the files of the matching datasets among datasets 1..d, in dataset_specs
   order and, within a dataset, in the dataset's order *)
PoolUpTo(d) ==
  IF d = 0 THEN <<>>
  ELSE PoolUpTo(d - 1) \o
       (IF d \in MatchingIndices THEN dataset_specs[d].files ELSE <<>>)

ExpectedPool == PoolUpTo(Len(dataset_specs))

(* C15: the pool is the files of the matching datasets in dataset_specs
   order; a job that holds files holds a run of consecutive pool files that
   starts at pool index (job index) * k, k = N div J, in pool order; no file
   is held by two jobs. *)
C15_OrderedDisjointRuns ==
  assign_pc \in {"loop", "done"} =>
    /\ all_files = ExpectedPool
    /\ Len(job_batch) >= 1 => k = Len(ExpectedPool) \div Len(job_batch)
    /\ \A i \in 1..Len(job_batch) :
         LET held == job_batch[i].infiles
         IN held # <<>> =>
              held = SubSeq(ExpectedPool, (i - 1) * k + 1, (i - 1) * k + Len(held))
    /\ \A i1, i2 \in 1..Len(job_batch) :
         i1 # i2 => AssignedTo(i1) \cap AssignedTo(i2) = {}

(* a finished assignment of the files of two matching datasets to three
   jobs, at least two files each *)
C15_Witness ==
  /\ assign_pc = "done"
  /\ Len(job_batch) = 3
  /\ Len(matching_ds) = 2
  /\ matching_ds[1].files # <<>> /\ matching_ds[2].files # <<>>
  /\ k >= 2
  /\ \A i \in 1..3 : Len(job_batch[i].infiles) = k

(* =================== the final task of a job ============================ *)

(* C16: when the output file of a job is about to be attached, the job has a
   Compute task and endtask points to a task. *)
C16_EndTaskExists ==
  pc = "output" =>
    /\ endtask # Null
    /\ \E c \in Computes : tasks[c].job = j

====
